---- MODULE Spec2Model ----
(***************************************************************************)
(* CommitmentTracker: the goals table, the Flask CRUD routes of            *)
(* web_app.py (add_goal, edit_goal, delete_goal) and the motivation        *)
(* Lambda of lambda_src/index.py (handler), interleaved at the grain of    *)
(* one DynamoDB or Bedrock call per step.                                  *)
(***************************************************************************)
EXTENDS Integers, Sequences, FiniteSets, TLC

\* ------------------------------------------------------------------ bounds

\* The wall clock counts ticks 0..MaxClock; a tick is half a second.
MaxClock == 2
TicksPerSecond == 2
\* Items one scan() response holds (DynamoDB cuts a response at 1 MB).
PageLimit == 1
\* Form posts and delete requests handled by the web application.
MaxCrud == 1

\* ------------------------------------------------------- values and formats

\* Lambda invocations that may be in flight; Spec schedules them one at a time.
Jobs == {"run1", "run2"}
SeqJobs == {"run1"}

\* Texts the Bedrock model may return.
Messages == {"Keep going!", "Almost there!"}

\* strftime('%Y%m%d%H%M%S'): the clock cut to whole seconds.
StrfSeconds(t) == ToString(t \div TicksPerSecond)

\* datetime.isoformat(): the clock at its full resolution.
IsoFormat(t) == "T" \o ToString(t \div TicksPerSecond) \o "." \o ToString(t % TicksPerSecond)

\* strftime('%Y-%m-%d'): the clock cut to the day (every tick of the model is day 0).
StrfDate(t) == "D" \o ToString(t \div (TicksPerSecond * (MaxClock + 1)))

\* f"goal-{...}"
GoalIdAt(t) == "goal-" \o StrfSeconds(t)

\* The goal ids a URL of the model may carry.
UrlIds == {GoalIdAt(t) : t \in 0..MaxClock}

\* Posted forms: every field, only the required fields, goal_name missing,
\* a progress_percentage that is no number.
FormFull ==
    [user_id |-> "u1", goal_name |-> "Run 10k", goal_category |-> "Health",
     goal_description |-> "race", target_date |-> "2026-06-01",
     start_date |-> "2026-01-01", priority |-> "High", status |-> "Completed",
     progress_percentage |-> "40", progress_details |-> "week 3",
     milestones |-> "5k", obstacles |-> "rain", success_criteria |-> "finish"]
FormRequired ==
    [user_id |-> "u2", goal_name |-> "Read", goal_category |-> "Learning",
     target_date |-> "2026-09-01", priority |-> "Low",
     progress_details |-> "chapter 1"]
FormNoName ==
    [user_id |-> "u1", goal_category |-> "Health", target_date |-> "2026-06-01",
     priority |-> "High", progress_details |-> "week 3"]
FormBadPercent ==
    [user_id |-> "u1", goal_name |-> "Run 10k", goal_category |-> "Health",
     target_date |-> "2026-06-01", priority |-> "High",
     progress_percentage |-> "forty", progress_details |-> "week 3"]
Forms == {FormFull, FormRequired, FormNoName, FormBadPercent}

\* request.form.get(key, default)
FormGet(form, key, default) == IF key \in DOMAIN form THEN form[key] ELSE default

\* int(text): the numerals the forms of the model carry; anything else raises ValueError.
IsNumeral(text) == text \in {"0", "40", "100"}
ParseInt(text) == CASE text = "40" -> 40 [] text = "100" -> 100 [] OTHER -> 0

\* dict.get(key, default) on a scanned item
ItemGet(item, key, default) == IF key \in DOMAIN item THEN item[key] ELSE default

\* ------------------------------------------------------------ the table

\* table.put_item(Item=item): the item replaces whatever the key held.
PutItem(table, item) ==
    [k \in DOMAIN table \cup {item.GoalID} |->
        IF k = item.GoalID THEN item ELSE table[k]]

\* SET a = :a, ...: the named attributes are written, the others kept.
SetAttributes(item, values) ==
    [a \in DOMAIN item \cup DOMAIN values |->
        IF a \in DOMAIN values THEN values[a] ELSE item[a]]

\* table.update_item(Key, UpdateExpression='SET ...') with no ConditionExpression:
\* an item that does not exist is created from the key and the SET attributes.
UpdateItem(table, key, values) ==
    [k \in DOMAIN table \cup {key} |->
        IF k # key THEN table[k]
        ELSE IF key \in DOMAIN table THEN SetAttributes(table[key], values)
        ELSE SetAttributes([GoalID |-> key], values)]

\* table.delete_item(Key): succeeds whether or not the key exists.
DeleteItem(table, key) == [k \in DOMAIN table \ {key} |-> table[k]]

\* The sequences over S with no repetition and of length n.
RECURSIVE Arrangements(_, _)
Arrangements(S, n) ==
    IF n = 0 THEN {<<>>}
    ELSE UNION {{<<x>> \o rest : rest \in Arrangements(S \ {x}, n - 1)} : x \in S}

Min(a, b) == IF a <= b THEN a ELSE b

\* table.scan()['Items']: one response, the first page of the table, in the
\* store's own order; a LastEvaluatedKey in the response is not followed.
ScanItems(table) ==
    {[i \in 1..Len(ids) |-> table[ids[i]]] :
        ids \in Arrangements(DOMAIN table, Min(PageLimit, Cardinality(DOMAIN table)))}

\* ------------------------------------------------------------------ state

VARIABLES
    clock,            \* the wall clock, in ticks
    store,            \* the goals table: GoalID -> item (attribute -> value)
    last,             \* the web application's last exchange: route, goal id, flash
    crud,             \* form posts and delete requests handled so far
    created,          \* history: the GoalIDs add_goal has put, in order
    deleted,          \* history: GoalIDs delete_goal removed and no route has written since
    edited,           \* history: GoalID -> the values of its last edit since it was put or deleted
    enriched,         \* history: GoalID -> the values the handler last wrote since then
    pc,               \* per invocation: idle, loop, update, done, failed
    goals,            \* per invocation: the list the scan returned
    idx,              \* per invocation: position of the for loop in goals
    processed_count,  \* per invocation: the handler's counter
    prompt,           \* per invocation: the fields of the last prompt sent to Bedrock
    message,          \* per invocation: the text extracted from the last Bedrock response
    result            \* per invocation: what the handler returned or raised

vars == <<clock, store, last, crud, created, deleted, edited, enriched, pc, goals, idx,
          processed_count, prompt, message, result>>

webVars == <<last, crud, created, deleted, edited>>
jobVars == <<pc, goals, idx, processed_count, prompt, message, result>>

\* The handler's return value.
Returned(n) ==
    [outcome |-> "return", statusCode |-> 200,
     body |-> "\"Successfully processed " \o ToString(n) \o " goals\""]

\* An exception leaving the handler: the invocation fails.
Raised(error) == [outcome |-> "raise", errorType |-> error]

NoResult == [outcome |-> "none"]

\* flash(text, category) together with the request it answers.
Exchange(route, goal_id, text, category) ==
    [route |-> route, goal_id |-> goal_id, flash |-> <<text, category>>]

\* Time passes.
Tick ==
    /\ clock < MaxClock
    /\ clock' = clock + 1
    /\ UNCHANGED <<store, webVars, enriched, jobVars>>

\* -------------------------------------------------------- web_app.py routes

\* The fields both forms index with request.form[...]: a missing one raises KeyError.
RequiredFields ==
    {"user_id", "goal_name", "goal_category", "target_date", "priority",
     "progress_details"}

\* Building the item or the attribute values raises: a required field is
\* missing, or int() rejects progress_percentage.
FormRaises(form) ==
    \/ ~(RequiredFields \subseteq DOMAIN form)
    \/ /\ "progress_percentage" \in DOMAIN form
       /\ ~IsNumeral(form.progress_percentage)

\* The exception the try block of add_goal or edit_goal ends with, the values
\* being built in the order of the source: the fields indexed before
\* progress_percentage, int(), progress_details, then the call to the table.
ExceptionOf(form, storeOk) ==
    IF ~({"user_id", "goal_name", "goal_category", "target_date", "priority"}
            \subseteq DOMAIN form)
    THEN "KeyError"
    ELSE IF "progress_percentage" \in DOMAIN form /\ ~IsNumeral(form.progress_percentage)
    THEN "ValueError"
    ELSE IF "progress_details" \notin DOMAIN form
    THEN "KeyError"
    ELSE IF ~storeOk THEN "ClientError" ELSE "none"

ProgressOf(form) ==
    IF "progress_percentage" \in DOMAIN form THEN ParseInt(form.progress_percentage) ELSE 0

\* add_goal: the item dictionary.
NewItem(form, now) ==
    [GoalID |-> GoalIdAt(now),
     UserID |-> form.user_id,
     GoalName |-> form.goal_name,
     GoalCategory |-> form.goal_category,
     GoalDescription |-> FormGet(form, "goal_description", ""),
     TargetDate |-> form.target_date,
     StartDate |-> FormGet(form, "start_date", StrfDate(now)),
     Priority |-> form.priority,
     Status |-> FormGet(form, "status", "Active"),
     ProgressPercentage |-> ProgressOf(form),
     ProgressDetails |-> form.progress_details,
     Milestones |-> FormGet(form, "milestones", ""),
     Obstacles |-> FormGet(form, "obstacles", ""),
     SuccessCriteria |-> FormGet(form, "success_criteria", ""),
     CreatedAt |-> IsoFormat(now),
     UpdatedAt |-> IsoFormat(now)]

\* edit_goal: the ExpressionAttributeValues, by the attribute each one sets.
EditValues(form, now) ==
    [UserID |-> form.user_id,
     GoalName |-> form.goal_name,
     GoalCategory |-> form.goal_category,
     GoalDescription |-> FormGet(form, "goal_description", ""),
     TargetDate |-> form.target_date,
     StartDate |-> FormGet(form, "start_date", ""),
     Priority |-> form.priority,
     Status |-> FormGet(form, "status", "Active"),
     ProgressPercentage |-> ProgressOf(form),
     ProgressDetails |-> form.progress_details,
     Milestones |-> FormGet(form, "milestones", ""),
     Obstacles |-> FormGet(form, "obstacles", ""),
     SuccessCriteria |-> FormGet(form, "success_criteria", ""),
     UpdatedAt |-> IsoFormat(now)]

\* The table outlives the processes: the application starts over an empty
\* table or over one holding a goal that add_goal put at tick 0.
InitialTables == {<<>>, PutItem(<<>>, NewItem(FormRequired, 0))}

Init ==
    /\ clock = 0
    /\ store \in InitialTables
    /\ last = Exchange("none", "", "", "")
    /\ crud = 0
    /\ created = [n \in 1..Cardinality(DOMAIN store) |-> GoalIdAt(0)]
    /\ deleted = {}
    /\ edited = <<>>
    /\ enriched = <<>>
    /\ pc = [j \in Jobs |-> "idle"]
    /\ goals = [j \in Jobs |-> <<>>]
    /\ idx = [j \in Jobs |-> 1]
    /\ processed_count = [j \in Jobs |-> 0]
    /\ prompt = [j \in Jobs |-> <<"", "", "">>]
    /\ message = [j \in Jobs |-> ""]
    /\ result = [j \in Jobs |-> NoResult]

\* History bookkeeping: f with k bound to v, and f without k.
Record(f, k, v) == [x \in DOMAIN f \cup {k} |-> IF x = k THEN v ELSE f[x]]
Forget(f, k) == [x \in DOMAIN f \ {k} |-> f[x]]

\* POST /add
AddGoal(form, storeOk) ==
    /\ crud < MaxCrud
    /\ crud' = crud + 1
    /\ IF FormRaises(form) \/ ~storeOk
       THEN /\ last' = Exchange("add", "", "Error adding goal: " \o ExceptionOf(form, storeOk), "error")
            /\ UNCHANGED <<store, created, deleted, edited, enriched>>
       ELSE /\ store' = PutItem(store, NewItem(form, clock))
            /\ last' = Exchange("add", GoalIdAt(clock), "Goal added successfully!", "success")
            /\ created' = Append(created, GoalIdAt(clock))
            /\ deleted' = deleted \ {GoalIdAt(clock)}
            /\ edited' = Forget(edited, GoalIdAt(clock))
            /\ enriched' = Forget(enriched, GoalIdAt(clock))
    /\ UNCHANGED <<clock, jobVars>>

\* Mutant of EditGoal: UpdatedAt is written before the form is read, so a
\* refused edit has already touched the item.
EditGoalTouchesFirst(goal_id, form, storeOk) ==
    /\ crud < MaxCrud
    /\ crud' = crud + 1
    /\ IF FormRaises(form) \/ ~storeOk
       THEN /\ store' = UpdateItem(store, goal_id, [UpdatedAt |-> IsoFormat(clock)])
            /\ last' = Exchange("edit", goal_id, "Error updating goal: " \o ExceptionOf(form, storeOk), "error")
            /\ UNCHANGED <<deleted, edited>>
       ELSE /\ store' = UpdateItem(store, goal_id, EditValues(form, clock))
            /\ last' = Exchange("edit", goal_id, "Goal updated successfully!", "success")
            /\ deleted' = deleted \ {goal_id}
            /\ edited' = Record(edited, goal_id, EditValues(form, clock))
    /\ UNCHANGED <<clock, created, enriched, jobVars>>

\* POST /edit/<goal_id>
EditGoal(goal_id, form, storeOk) ==
    /\ crud < MaxCrud
    /\ crud' = crud + 1
    /\ IF FormRaises(form) \/ ~storeOk
       THEN /\ last' = Exchange("edit", goal_id, "Error updating goal: " \o ExceptionOf(form, storeOk), "error")
            /\ UNCHANGED <<store, deleted, edited>>
       ELSE /\ store' = UpdateItem(store, goal_id, EditValues(form, clock))
            /\ last' = Exchange("edit", goal_id, "Goal updated successfully!", "success")
            /\ deleted' = deleted \ {goal_id}
            /\ edited' = Record(edited, goal_id, EditValues(form, clock))
    /\ UNCHANGED <<clock, created, enriched, jobVars>>

\* GET /delete/<goal_id>
DeleteGoal(goal_id, storeOk) ==
    /\ crud < MaxCrud
    /\ crud' = crud + 1
    /\ IF ~storeOk
       THEN /\ last' = Exchange("delete", goal_id, "Error deleting goal: ClientError", "error")
            /\ UNCHANGED <<store, deleted, edited, enriched>>
       ELSE /\ store' = DeleteItem(store, goal_id)
            /\ last' = Exchange("delete", goal_id, "Goal deleted successfully!", "success")
            /\ deleted' = deleted \cup {goal_id}
            /\ edited' = Forget(edited, goal_id)
            /\ enriched' = Forget(enriched, goal_id)
    /\ UNCHANGED <<clock, created, jobVars>>

\* ------------------------------------------------- lambda_src/index.py handler

\* The goal the for loop is at.
Goal(j) == goals[j][idx[j]]

\* Mutant of PromptFields: a missing attribute is read as the empty string.
PromptFieldsNoDefaults(goal) ==
    <<ItemGet(goal, "GoalName", ""),
      ItemGet(goal, "TargetDate", ""),
      ItemGet(goal, "ProgressDetails", "")>>

\* goal.get(...) with the handler's defaults: the three fields of the prompt.
PromptFields(goal) ==
    <<ItemGet(goal, "GoalName", "Unknown"),
      ItemGet(goal, "TargetDate", "Not set"),
      ItemGet(goal, "ProgressDetails", "No details")>>

\* Mutant of EnrichmentValues: the UpdateExpression sets the message alone.
EnrichmentValuesMessageOnly(text, now) ==
    [MotivationalMessage |-> text]

\* The attributes the handler's UpdateExpression sets.
EnrichmentValues(text, now) ==
    [MotivationalMessage |-> text, LastEncouragementDate |-> IsoFormat(now)]

\* Mutant of EnrichmentWrite: the scanned copy of the item is written back whole
\* with the two fields added, as put_item would.
EnrichmentWriteWholeItem(table, goal, text, now) ==
    PutItem(table, SetAttributes(goal, EnrichmentValues(text, now)))

\* The handler's write for the goal it is at.
EnrichmentWrite(table, goal, text, now) ==
    UpdateItem(table, goal.GoalID, EnrichmentValues(text, now))

\* The handler's frame is gone once it has returned or raised.
Exit(j, outcome, failed) ==
    /\ pc' = [pc EXCEPT ![j] = IF failed THEN "failed" ELSE "done"]
    /\ result' = [result EXCEPT ![j] = outcome]
    /\ goals' = [goals EXCEPT ![j] = <<>>]
    /\ idx' = [idx EXCEPT ![j] = 1]
    /\ processed_count' = [processed_count EXCEPT ![j] = 0]
    /\ prompt' = [prompt EXCEPT ![j] = <<"", "", "">>]
    /\ message' = [message EXCEPT ![j] = ""]

\* Mutant of Scan: a scan that raises is caught and the loop runs over no goals.
ScanSwallowsFailure(j, scanOk) ==
    /\ pc[j] \in {"idle", "done", "failed"}
    /\ \E items \in (IF scanOk THEN ScanItems(store) ELSE {<<>>}) :
           goals' = [goals EXCEPT ![j] = items]
    /\ processed_count' = [processed_count EXCEPT ![j] = 0]
    /\ idx' = [idx EXCEPT ![j] = 1]
    /\ pc' = [pc EXCEPT ![j] = "loop"]
    /\ result' = [result EXCEPT ![j] = NoResult]
    /\ UNCHANGED <<prompt, message>>
    /\ UNCHANGED <<clock, store, webVars, enriched>>

\* handler is invoked: table.scan(), goals = response['Items'], processed_count = 0.
\* A scan that raises ends the invocation.
Scan(j, scanOk) ==
    /\ pc[j] \in {"idle", "done", "failed"}
    /\ IF scanOk
       THEN /\ \E items \in ScanItems(store) : goals' = [goals EXCEPT ![j] = items]
            /\ processed_count' = [processed_count EXCEPT ![j] = 0]
            /\ idx' = [idx EXCEPT ![j] = 1]
            /\ pc' = [pc EXCEPT ![j] = "loop"]
            /\ result' = [result EXCEPT ![j] = NoResult]
            /\ UNCHANGED <<prompt, message>>
       ELSE Exit(j, Raised("ScanError"), TRUE)
    /\ UNCHANGED <<clock, store, webVars, enriched>>

\* One goal of the loop: the prompt is built and bedrock_runtime.invoke_model is
\* called; no try surrounds the call, so its exception leaves the handler.
Generate(j, bedrockOk) ==
    /\ pc[j] = "loop"
    /\ idx[j] <= Len(goals[j])
    /\ IF bedrockOk
       THEN /\ prompt' = [prompt EXCEPT ![j] = PromptFields(Goal(j))]
            /\ \E text \in Messages : message' = [message EXCEPT ![j] = text]
            /\ pc' = [pc EXCEPT ![j] = "update"]
            /\ UNCHANGED <<result, goals, idx, processed_count>>
       ELSE Exit(j, Raised("GenerationError"), TRUE)
    /\ UNCHANGED <<clock, store, webVars, enriched>>

\* Mutant of Update: an update_item that raises is caught and the goal is
\* generated for again.
UpdateRetriesOnFailure(j, storeOk) ==
    /\ pc[j] = "update"
    /\ IF storeOk
       THEN /\ store' = EnrichmentWrite(store, Goal(j), message[j], clock)
            /\ enriched' = Record(enriched, Goal(j).GoalID, EnrichmentValues(message[j], clock))
            /\ processed_count' = [processed_count EXCEPT ![j] = @ + 1]
            /\ idx' = [idx EXCEPT ![j] = @ + 1]
       ELSE UNCHANGED <<store, enriched, processed_count, idx>>
    /\ pc' = [pc EXCEPT ![j] = "loop"]
    /\ UNCHANGED <<result, goals, prompt, message>>
    /\ UNCHANGED <<clock, webVars>>

\* Mutant of Update: the update expression sets LastEncouragementDate only
\* where the item has none (if_not_exists), so a later message keeps an
\* earlier write's date.
UpdateKeepsFirstDate(j, storeOk) ==
    /\ pc[j] = "update"
    /\ IF storeOk
       THEN /\ LET k == Goal(j).GoalID
                   kept == IF k \in DOMAIN store /\ "LastEncouragementDate" \in DOMAIN store[k]
                           THEN store[k].LastEncouragementDate
                           ELSE IsoFormat(clock)
               IN store' = UpdateItem(store, k, [MotivationalMessage |-> message[j],
                                                 LastEncouragementDate |-> kept])
            /\ enriched' = Record(enriched, Goal(j).GoalID, EnrichmentValues(message[j], clock))
            /\ processed_count' = [processed_count EXCEPT ![j] = @ + 1]
            /\ idx' = [idx EXCEPT ![j] = @ + 1]
            /\ pc' = [pc EXCEPT ![j] = "loop"]
            /\ UNCHANGED <<result, goals, prompt, message>>
       ELSE /\ Exit(j, Raised("StoreWriteError"), TRUE)
            /\ UNCHANGED <<store, enriched>>
    /\ UNCHANGED <<clock, webVars>>

\* table.update_item for the goal, then processed_count += 1; no try surrounds
\* the call, so its exception leaves the handler.
Update(j, storeOk) ==
    /\ pc[j] = "update"
    /\ IF storeOk
       THEN /\ store' = EnrichmentWrite(store, Goal(j), message[j], clock)
            /\ enriched' = Record(enriched, Goal(j).GoalID, EnrichmentValues(message[j], clock))
            /\ processed_count' = [processed_count EXCEPT ![j] = @ + 1]
            /\ idx' = [idx EXCEPT ![j] = @ + 1]
            /\ pc' = [pc EXCEPT ![j] = "loop"]
            /\ UNCHANGED <<result, goals, prompt, message>>
       ELSE /\ Exit(j, Raised("StoreWriteError"), TRUE)
            /\ UNCHANGED <<store, enriched>>
    /\ UNCHANGED <<clock, webVars>>

\* The loop is over: the handler returns its response.
Return(j) ==
    /\ pc[j] = "loop"
    /\ idx[j] > Len(goals[j])
    /\ Exit(j, Returned(processed_count[j]), FALSE)
    /\ UNCHANGED <<clock, store, webVars, enriched>>

\* ---------------------------------------------------------- specifications

Web ==
    \/ \E form \in Forms, storeOk \in BOOLEAN : AddGoal(form, storeOk)
    \/ \E goal_id \in UrlIds, form \in Forms, storeOk \in BOOLEAN :
           EditGoal(goal_id, form, storeOk)
    \/ \E goal_id \in UrlIds, storeOk \in BOOLEAN : DeleteGoal(goal_id, storeOk)

Job(j) ==
    \/ \E scanOk \in BOOLEAN : Scan(j, scanOk)
    \/ \E bedrockOk \in BOOLEAN : Generate(j, bedrockOk)
    \/ \E storeOk \in BOOLEAN : Update(j, storeOk)
    \/ Return(j)

\* The CRUD routes and one Lambda invocation at a time (the daily schedule).
Next == Tick \/ Web \/ \E j \in SeqJobs : Job(j)

Spec == Init /\ [][Next]_vars

\* A table written before the first tick: the goal of InitialTables and one
\* added a second earlier.
EarlierTick == 0 - TicksPerSecond

OverlapTables ==
    InitialTables \cup
        {PutItem(PutItem(<<>>, NewItem(FormFull, EarlierTick)), NewItem(FormRequired, 0))}

InitOverlap ==
    /\ clock = 0
    /\ store \in OverlapTables
    /\ last = Exchange("none", "", "", "")
    /\ crud = 0
    /\ created = [n \in 1..Cardinality(DOMAIN store) |->
                     GoalIdAt((n - Cardinality(DOMAIN store)) * TicksPerSecond)]
    /\ deleted = {}
    /\ edited = <<>>
    /\ enriched = <<>>
    /\ pc = [j \in Jobs |-> "idle"]
    /\ goals = [j \in Jobs |-> <<>>]
    /\ idx = [j \in Jobs |-> 1]
    /\ processed_count = [j \in Jobs |-> 0]
    /\ prompt = [j \in Jobs |-> <<"", "", "">>]
    /\ message = [j \in Jobs |-> ""]
    /\ result = [j \in Jobs |-> NoResult]

\* An invocation that is past its scan: the loop body and the return.
Running(j) ==
    \/ \E bedrockOk \in BOOLEAN : Generate(j, bedrockOk)
    \/ \E storeOk \in BOOLEAN : Update(j, storeOk)
    \/ Return(j)

\* Two invocations of the handler, each invoked once and at any time relative
\* to the other, and no request to the web app.
NextOverlap ==
    \/ Tick
    \/ \E j \in Jobs :
        \/ pc[j] = "idle" /\ \E scanOk \in BOOLEAN : Scan(j, scanOk)
        \/ Running(j)

\* Every call of an invoked handler returns or raises, so the handler goes on.
SpecOverlap ==
    InitOverlap /\ [][NextOverlap]_vars /\ \A j \in Jobs : WF_vars(Running(j))

\* ------------------------------------------------------------------ claims

EnrichmentFields == {"MotivationalMessage", "LastEncouragementDate"}

\* The GoalIDs of a scanned list.
IdsOf(items) == {items[i].GoalID : i \in 1..Len(items)}

\* A step of invocation j that leaves pc[j] = from for pc[j] = to.
Moves(j, from, to) == pc[j] = from /\ pc'[j] = to

\* Two versions of an item agree outside the enrichment fields.
SameOutsideEnrichment(old, new) ==
    /\ DOMAIN old \ EnrichmentFields = DOMAIN new \ EnrichmentFields
    /\ \A a \in DOMAIN old \ EnrichmentFields : new[a] = old[a]

\* C1 (isolation): a failed generation call for one goal never ends the
\* invocation; the handler goes on to the other goals and returns its summary.
C1_GenerationFailureIsolated ==
    \A j \in Jobs :
        result[j].outcome = "raise" => result[j].errorType # "GenerationError"

\* C2 (deletion race): when the handler's update returns for a goal that was
\* deleted after the scan, the goal is skipped: the write leaves no item for
\* that GoalID in the table and processed_count is not incremented.
C2_DeletedGoalSkipped ==
    [][\A j \in Jobs :
         (Moves(j, "update", "loop") /\ Goal(j).GoalID \notin DOMAIN store)
             => /\ Goal(j).GoalID \notin DOMAIN store'
                /\ processed_count'[j] = processed_count[j]]_vars

\* C3 (frame of the job): a step of the handler leaves the set of GoalIDs in
\* the table as it is and changes nothing but the two enrichment fields of the
\* item it writes.
C3_JobFrame ==
    [][pc' # pc =>
         /\ DOMAIN store' = DOMAIN store
         /\ \A k \in DOMAIN store :
                /\ SameOutsideEnrichment(store[k], store'[k])
                /\ (store'[k] # store[k] =>
                      \E j \in Jobs : pc[j] = "update" /\ Goal(j).GoalID = k)]_vars

\* C4 (partial-field update under a race): whatever the order of an edit and
\* the handler's write on one item, the item holds the values of its last edit
\* in every attribute the edit set and the values of the handler's last write
\* in the two enrichment fields.
C4_NeitherWriteLost ==
    /\ \A k \in DOMAIN edited :
           /\ k \in DOMAIN store
           /\ \A a \in DOMAIN edited[k] :
                  a \in DOMAIN store[k] /\ store[k][a] = edited[k][a]
    /\ \A k \in DOMAIN enriched :
           /\ k \in DOMAIN store
           /\ \A a \in DOMAIN enriched[k] :
                  a \in DOMAIN store[k] /\ store[k][a] = enriched[k][a]

\* C4's case: the handler has written, in this run, an item it scanned with
\* another Status than the item has now, and the edit that changed it came
\* before the handler's write (UpdatedAt earlier than LastEncouragementDate).
C4_EditBetweenScanAndWrite ==
    \E j \in Jobs :
        /\ pc[j] = "loop"
        /\ \E i \in 1..(idx[j] - 1) :
             LET k == goals[j][i].GoalID IN
               /\ k \in DOMAIN edited /\ k \in DOMAIN enriched /\ k \in DOMAIN store
               /\ "Status" \in DOMAIN goals[j][i]
               /\ goals[j][i].Status # store[k].Status
               /\ store[k].Status = edited[k].Status
               /\ store[k].MotivationalMessage = message[j]
               /\ \E t1 \in 0..MaxClock, t2 \in 0..MaxClock :
                      /\ t1 < t2
                      /\ store[k].UpdatedAt = IsoFormat(t1)
                      /\ store[k].LastEncouragementDate = IsoFormat(t2)

\* C5 (end-to-end summary): what the handler returns over a table that holds
\* goals carries processed_count and total_count.
C5_SummaryCarriesBothCounts ==
    \A j \in Jobs :
        (result[j].outcome = "return" /\ DOMAIN store # {})
            => {"processed_count", "total_count"} \subseteq DOMAIN result[j]

\* C6 (full coverage of the scan): the list the handler iterates over holds
\* every goal that is in the table when the scan is made (stated for tables
\* whose items were all put by add_goal).
C6_ScanCoversStore ==
    [][\A j \in Jobs :
         (/\ pc[j] \in {"idle", "done", "failed"} /\ pc'[j] = "loop"
          /\ \A k \in DOMAIN store : "CreatedAt" \in DOMAIN store[k])
             => IdsOf(goals'[j]) = DOMAIN store]_vars

\* C7 (GoalID uniqueness): no two creates were given the same GoalID.
C7_GoalIdsUnique ==
    \A m \in 1..Len(created), n \in 1..Len(created) :
        m # n => created[m] # created[n]

\* C8 (deletion is final for enrichment): a scan made after a goal was deleted
\* does not return that GoalID.
C8_DeletedNeverScanned ==
    [][\A j \in Jobs :
         (pc[j] \in {"idle", "done", "failed"} /\ pc'[j] = "loop")
             => IdsOf(goals'[j]) \cap deleted = {}]_vars

\* C9 (store write failure is a per-goal skip): a failed update of one goal
\* never ends the invocation.
C9_WriteFailureIsolated ==
    \A j \in Jobs :
        result[j].outcome = "raise" => result[j].errorType # "StoreWriteError"

\* C10 (NotFound on CRUD writes): an edit or delete request for a GoalID that
\* is not in the table leaves the table as it is and answers with an error.
C10_MissingGoalNotFound ==
    [][(crud' # crud /\ last'.route \in {"edit", "delete"}
            /\ last'.goal_id \notin DOMAIN store)
         => (store' = store /\ last'.flash[2] = "error")]_vars

\* C11 (validation before write): an add or edit request whose form lacks a
\* required field writes nothing to the table and answers with an error flash.
C11_MissingFieldRejected ==
    [][\A form \in Forms :
         ~(RequiredFields \subseteq DOMAIN form) =>
             \A storeOk \in BOOLEAN :
                 /\ AddGoal(form, storeOk)
                        => (store' = store /\ last'.flash[2] = "error")
                 /\ \A goal_id \in UrlIds :
                        EditGoal(goal_id, form, storeOk)
                            => (store' = store /\ last'.flash[2] = "error")]_vars

\* C11's case: an edit of a stored goal was refused for a missing field.
C11_EditRefusedForMissingField ==
    /\ last.route = "edit"
    /\ last.goal_id \in DOMAIN store
    /\ last.flash = <<"Error updating goal: KeyError", "error">>

\* C12 (snapshot boundary): a goal created after a run's scan is not written
\* by that run: the item an update of the run writes to is the goal the run
\* scanned (same CreatedAt), not one add_goal put since.
C12_CreatedAfterScanNotWritten ==
    [][\A j \in Jobs :
         LET k == Goal(j).GoalID IN
           (/\ Moves(j, "update", "loop")
            /\ k \in DOMAIN store
            /\ "CreatedAt" \in DOMAIN store[k]
            /\ "CreatedAt" \in DOMAIN Goal(j))
               => store[k].CreatedAt = Goal(j).CreatedAt]_vars

\* C13 (overlapping runs): while two invocations run over the same table and
\* no request reaches the web app, every goal of the table stays in it under
\* its one key, its fields other than the two enrichment fields are those it
\* had before the invocations, and its MotivationalMessage and
\* LastEncouragementDate are together the values of one single update_item.
C13_OverlapKeepsStore ==
    \E before \in OverlapTables :
        /\ DOMAIN store = DOMAIN before
        /\ \A k \in DOMAIN store :
            /\ SameOutsideEnrichment(before[k], store[k])
            /\ IF k \in DOMAIN enriched
               THEN \A a \in EnrichmentFields :
                        a \in DOMAIN store[k] /\ store[k][a] = enriched[k][a]
               ELSE DOMAIN store[k] \cap EnrichmentFields = {}

\* C13's case: both invocations scanned the goal before either wrote it, and
\* both have written it, with different messages.
C13_BothWroteSameGoal ==
    /\ \A j \in Jobs :
        /\ pc[j] = "loop"
        /\ idx[j] = 2
        /\ "MotivationalMessage" \notin DOMAIN goals[j][1]
    /\ goals["run1"][1].GoalID = goals["run2"][1].GoalID
    /\ message["run1"] # message["run2"]

\* The attributes edit_goal is claimed to leave alone.
EditFrame == {"GoalID", "CreatedAt"} \cup EnrichmentFields

\* An edit of the stored goal goal_id refreshes UpdatedAt and changes nothing
\* of EditFrame in it, nor any other item.
EditKeepsFrame(goal_id) ==
    /\ DOMAIN store' = DOMAIN store
    /\ store'[goal_id].UpdatedAt = IsoFormat(clock)
    /\ \A a \in EditFrame :
        /\ (a \in DOMAIN store'[goal_id]) <=> (a \in DOMAIN store[goal_id])
        /\ a \in DOMAIN store[goal_id] => store'[goal_id][a] = store[goal_id][a]
    /\ \A k \in DOMAIN store \ {goal_id} : store'[k] = store[k]

\* C14 (frame of the CRUD edit): an accepted edit of a stored goal refreshes
\* UpdatedAt and leaves GoalID, CreatedAt, MotivationalMessage and
\* LastEncouragementDate of the item and every other item unchanged; and no
\* step changes the CreatedAt of an item that stays in the table.
C14_EditFrameCreatedAtFixed ==
    [][/\ \A goal_id \in UrlIds \cap DOMAIN store : \A form \in Forms :
            (EditGoal(goal_id, form, TRUE) /\ last'.flash[2] = "success")
                => EditKeepsFrame(goal_id)
       /\ \A k \in DOMAIN store \cap DOMAIN store' :
            "CreatedAt" \in DOMAIN store[k]
                => /\ "CreatedAt" \in DOMAIN store'[k]
                   /\ store'[k].CreatedAt = store[k].CreatedAt]_vars

\* The value the generator is to be given for an attribute of a scanned goal.
Prompted(goal, attribute, default) ==
    IF attribute \in DOMAIN goal THEN goal[attribute] ELSE default

\* C15 (default substitution): whatever attributes the scanned goal lacks, the
\* loop leaves for a failure only when the generator fails; a generation that
\* succeeds was called with the goal's GoalName, TargetDate and ProgressDetails
\* or, where missing, "Unknown", "Not set" and "No details"; and the update
\* that follows writes the message to the goal's item and counts it.
C15_DefaultsSubstituted ==
    [][\A j \in Jobs :
         /\ Moves(j, "loop", "failed") => result'[j] = Raised("GenerationError")
         /\ Moves(j, "loop", "update") =>
                prompt'[j] = <<Prompted(Goal(j), "GoalName", "Unknown"),
                               Prompted(Goal(j), "TargetDate", "Not set"),
                               Prompted(Goal(j), "ProgressDetails", "No details")>>
         /\ Moves(j, "update", "loop") =>
                /\ store'[Goal(j).GoalID].MotivationalMessage = message[j]
                /\ processed_count'[j] = processed_count[j] + 1]_vars

\* C15's case: the goal just written and counted had none of the three
\* attributes, and the generator was given the three defaults.
C15_BareGoalProcessed ==
    \E j \in Jobs :
        /\ pc[j] = "loop"
        /\ idx[j] = 2
        /\ DOMAIN goals[j][1] \cap {"GoalName", "TargetDate", "ProgressDetails"} = {}
        /\ prompt[j] = <<"Unknown", "Not set", "No details">>
        /\ processed_count[j] = 1
        /\ store[goals[j][1].GoalID].MotivationalMessage = message[j]

\* C16 (total outage): an invocation whose table.scan() fails ends failed,
\* with the scan's exception and no response, having called the generator for
\* nothing and written nothing.
C16_ScanFailureFailsRun ==
    [][\A j \in Jobs :
         Scan(j, FALSE)
           => /\ pc'[j] = "failed"
              /\ result'[j] = Raised("ScanError")
              /\ prompt'[j] = <<"", "", "">>
              /\ message'[j] = ""
              /\ processed_count'[j] = 0
              /\ store' = store
              /\ enriched' = enriched]_vars

\* C16's case: an invocation over a table that holds goals ended on its scan.
C16_ScanFailedOverGoals ==
    \E j \in Jobs :
        /\ pc[j] = "failed"
        /\ result[j] = Raised("ScanError")
        /\ DOMAIN store # {}

\* C17 (enrichment fields paired): in every state, whatever the interleaving
\* of add, edit, delete and handler steps, each item of the table has both
\* MotivationalMessage and LastEncouragementDate or neither.
C17_EnrichmentPaired ==
    \A k \in DOMAIN store :
        ("MotivationalMessage" \in DOMAIN store[k])
            <=> ("LastEncouragementDate" \in DOMAIN store[k])

\* C17's case: an item that a request edited and the handler wrote has both.
C17_EditedAndEnriched ==
    \E k \in DOMAIN store \cap DOMAIN edited :
        EnrichmentFields \subseteq DOMAIN store[k]

\* The invocation is between its scan and its end.
InLoop(j) == pc[j] \in {"loop", "update"}

\* C18 (bounded work and termination): with every call returning or raising,
\* an invocation that has scanned ends (returns or fails); on its way it calls
\* the generator and update_item each once at most for a scanned goal, the
\* goal at idx, which an update moves on by one and nothing moves back; and
\* processed_count never exceeds the number of scanned goals.
C18_BoundedWorkThenEnd ==
    /\ [](\A j \in Jobs :
            /\ processed_count[j] <= Len(goals[j])
            /\ idx[j] <= Len(goals[j]) + 1
            /\ pc[j] = "update" => idx[j] <= Len(goals[j]))
    /\ [][\A j \in Jobs :
            /\ Moves(j, "loop", "update") => (idx'[j] = idx[j] /\ goals'[j] = goals[j])
            /\ pc[j] = "update" /\ pc'[j] # "update" =>
                   \/ pc'[j] = "failed"
                   \/ pc'[j] = "loop" /\ idx'[j] = idx[j] + 1 /\ goals'[j] = goals[j]
            /\ InLoop(j) /\ InLoop(j)' => processed_count'[j] <= idx'[j] - 1]_vars
    /\ \A j \in Jobs : InLoop(j) ~> pc[j] \in {"done", "failed"}

\* C18's case: an invocation that scanned goals has generated for and written
\* each of them once and returned.
C18_ReturnedAfterEveryGoal ==
    \E j \in Jobs :
        /\ pc[j] = "done"
        /\ result[j] = Returned(Min(PageLimit, Cardinality(DOMAIN store)))
        /\ DOMAIN store # {}

====
